---- MODULE Spec2Model ----
(***************************************************************************)
(* Holdings aggregation of the personal finance ledger                     *)
(* (src/app/services/rebalance.py) over the transaction store written by   *)
(* the routers (src/app/routers).                                          *)
(*                                                                         *)
(* Numbers.  Amounts are stored as Numeric(24, 10): every stored amount is *)
(* a whole number of units of 1e-10, and the model counts in those units.  *)
(* The service converts each amount with float() and accumulates in        *)
(* binary floating point.  A Python float keeps 53 significant bits; the   *)
(* model keeps MantBits significant bits and rounds to nearest, ties to    *)
(* even, exactly as IEEE 754 does, so that a sum is exact while it fits    *)
(* the mantissa and is rounded once it does not.                           *)
(*                                                                         *)
(* NULL.  Primary keys are autoincrement integers >= 1, so 0 stands for a  *)
(* NULL id (Python treats None and 0 alike in `if asset_id and amount`).   *)
(* An optional amount is <<>> when NULL and <<a>> when set.                *)
(***************************************************************************)
EXTENDS Integers, Sequences, FiniteSets, TLC

VARIABLES log, accounts, out, deleted, prices, allocations

vars == <<log, accounts, out, deleted, prices, allocations>>

(***************************************************************************)
(* Bounds of the model.                                                    *)
(***************************************************************************)
MaxLog == 3
MantBits == 3
MaxPrices == 3

(***************************************************************************)
(* Program constants.                                                      *)
(***************************************************************************)
Dust == 1

NULL == 0
NoAmount == <<>>
Some(a) == <<a>>

Users == {1, 2}
Accounts == {1, 2}
Assets == {1, 2}

TransactionType == {"expense", "income", "trade", "transfer", "rebalance"}

Transaction(user_id, account_id, type, from_asset_id, from_amount, to_asset_id, to_amount) ==
    [user_id |-> user_id, account_id |-> account_id, type |-> type,
     from_asset_id |-> from_asset_id, from_amount |-> from_amount,
     to_asset_id |-> to_asset_id, to_amount |-> to_amount]

(***************************************************************************)
(* Floating point with MantBits significant bits.                          *)
(***************************************************************************)
Abs(x) == IF x < 0 THEN -x ELSE x

RECURSIVE Pow2(_)
Pow2(n) == IF n = 0 THEN 1 ELSE 2 * Pow2(n - 1)

RECURSIVE Exponent(_, _)
Exponent(m, e) == IF m < Pow2(MantBits + e) THEN e ELSE Exponent(m, e + 1)

\* The representable number nearest to x, ties to the even mantissa.
Round(x) ==
    LET m == Abs(x)
        step == Pow2(Exponent(m, 0))
        q == m \div step
        r == m % step
        up == 2 * r > step \/ (2 * r = step /\ q % 2 = 1)
        mag == (IF up THEN q + 1 ELSE q) * step
    IN  IF x < 0 THEN -mag ELSE mag

\* float(d) of a stored Decimal d.
float(d) == Round(d)

\* a + b and a - b on floats.
FAdd(a, b) == Round(a + b)
FSub(a, b) == Round(a - b)

(***************************************************************************)
(* Python dicts as functions with a growing domain.                        *)
(***************************************************************************)
EmptyDict == <<>>
DictGet(d, k, default) == IF k \in DOMAIN d THEN d[k] ELSE default
DictPut(d, k, v) == [x \in (DOMAIN d) \cup {k} |-> IF x = k THEN v ELSE d[x]]

\* `if asset_id and amount`: both set and neither 0.
Truthy(asset_id, amount) ==
    asset_id # NULL /\ amount # NoAmount /\ amount[1] # 0

(***************************************************************************)
(* compute_holdings.                                                       *)
(***************************************************************************)
\* Faulty variant: the query without its filter on the transaction type.
HoldingsRowsAnyType(session, user_id) ==
    SelectSeq(session, LAMBDA t : t.user_id = user_id)

\* The rows the query of compute_holdings selects, in store order.
HoldingsRows(session, user_id) ==
    SelectSeq(session, LAMBDA t : t.user_id = user_id
                                  /\ t.type \in {"trade", "rebalance"})

\* Faulty variant: the to leg assigned (=) where the loop accumulates (+=).
HoldingsStepAssign(qty, t) ==
    LET q1 == IF Truthy(t.from_asset_id, t.from_amount)
              THEN DictPut(qty, t.from_asset_id,
                           FSub(DictGet(qty, t.from_asset_id, 0), float(t.from_amount[1])))
              ELSE qty
    IN  IF Truthy(t.to_asset_id, t.to_amount)
        THEN DictPut(q1, t.to_asset_id, float(t.to_amount[1]))
        ELSE q1

\* Faulty variant: the from leg added where the loop subtracts it.
HoldingsStepFromAdded(qty, t) ==
    LET q1 == IF Truthy(t.from_asset_id, t.from_amount)
              THEN DictPut(qty, t.from_asset_id,
                           FAdd(DictGet(qty, t.from_asset_id, 0), float(t.from_amount[1])))
              ELSE qty
    IN  IF Truthy(t.to_asset_id, t.to_amount)
        THEN DictPut(q1, t.to_asset_id,
                     FAdd(DictGet(q1, t.to_asset_id, 0), float(t.to_amount[1])))
        ELSE q1

\* One pass of the accumulation loop over a row.
HoldingsStep(qty, t) ==
    LET q1 == IF Truthy(t.from_asset_id, t.from_amount)
              THEN DictPut(qty, t.from_asset_id,
                           FSub(DictGet(qty, t.from_asset_id, 0), float(t.from_amount[1])))
              ELSE qty
    IN  IF Truthy(t.to_asset_id, t.to_amount)
        THEN DictPut(q1, t.to_asset_id,
                     FAdd(DictGet(q1, t.to_asset_id, 0), float(t.to_amount[1])))
        ELSE q1

RECURSIVE HoldingsLoop(_, _)
HoldingsLoop(rows, qty) ==
    IF rows = <<>> THEN qty
    ELSE HoldingsLoop(Tail(rows), HoldingsStep(qty, Head(rows)))

\* Faulty variant: only exact zeros removed.
RemoveZeros(qty) == [aid \in {a \in DOMAIN qty : Abs(qty[a]) > 0} |-> qty[aid]]

\* Remove near-zero dust.
RemoveDust(qty) == [aid \in {a \in DOMAIN qty : Abs(qty[a]) > Dust} |-> qty[aid]]

compute_holdings(session, user_id) ==
    RemoveDust(HoldingsLoop(HoldingsRows(session, user_id), EmptyDict))

(***************************************************************************)
(* compute_holdings_by_account.                                            *)
(***************************************************************************)
\* Faulty variant: the query without its filter on the user.
ByAccountRowsAnyUser(session, user_id) ==
    SelectSeq(session, LAMBDA t : t.type \in {"trade", "rebalance", "expense", "income"})

\* The rows the query of compute_holdings_by_account selects, in store order.
ByAccountRows(session, user_id) ==
    SelectSeq(session, LAMBDA t : t.user_id = user_id
                                  /\ t.type \in {"trade", "rebalance", "expense", "income"})

\* Faulty variant: a balance clamped at zero.
addClamped(acct_map, asset_id, delta) ==
    IF asset_id = NULL \/ Abs(delta) <= 0 THEN acct_map
    ELSE LET q == FAdd(DictGet(acct_map, asset_id, 0), delta)
         IN  DictPut(acct_map, asset_id, IF q < 0 THEN 0 ELSE q)

\* The inner helper _add(asset_id, delta) on the account's map.
add(acct_map, asset_id, delta) ==
    IF asset_id = NULL \/ Abs(delta) <= 0 THEN acct_map
    ELSE DictPut(acct_map, asset_id, FAdd(DictGet(acct_map, asset_id, 0), delta))

\* Faulty variant: an expense and an income applied with both legs, like a trade.
ApplyTypeBothLegs(acct_map, t) ==
    IF t.type \in {"trade", "rebalance", "expense", "income"} THEN
        LET m1 == IF Truthy(t.from_asset_id, t.from_amount)
                  THEN add(acct_map, t.from_asset_id, -float(t.from_amount[1]))
                  ELSE acct_map
        IN  IF Truthy(t.to_asset_id, t.to_amount)
            THEN add(m1, t.to_asset_id, float(t.to_amount[1]))
            ELSE m1
    ELSE acct_map

\* The branch on the transaction type, applied to the account's map.
ApplyType(acct_map, t) ==
    IF t.type \in {"trade", "rebalance"} THEN
        LET m1 == IF Truthy(t.from_asset_id, t.from_amount)
                  THEN add(acct_map, t.from_asset_id, -float(t.from_amount[1]))
                  ELSE acct_map
        IN  IF Truthy(t.to_asset_id, t.to_amount)
            THEN add(m1, t.to_asset_id, float(t.to_amount[1]))
            ELSE m1
    ELSE IF t.type = "expense" THEN
        IF Truthy(t.from_asset_id, t.from_amount)
        THEN add(acct_map, t.from_asset_id, -float(t.from_amount[1]))
        ELSE acct_map
    ELSE IF t.type = "income" THEN
        IF Truthy(t.to_asset_id, t.to_amount)
        THEN add(acct_map, t.to_asset_id, float(t.to_amount[1]))
        ELSE acct_map
    ELSE acct_map

\* Faulty variant: a row without an account filed under the key of NULL.
ByAccountStepNoSkip(by_account, t) ==
    DictPut(by_account, t.account_id,
            ApplyType(DictGet(by_account, t.account_id, EmptyDict), t))

\* One pass of the loop: rows without an account are skipped, the account's
\* map is created by setdefault even when nothing is added to it.
ByAccountStep(by_account, t) ==
    IF t.account_id = NULL THEN by_account
    ELSE DictPut(by_account, t.account_id,
                 ApplyType(DictGet(by_account, t.account_id, EmptyDict), t))

RECURSIVE ByAccountLoop(_, _)
ByAccountLoop(rows, by_account) ==
    IF rows = <<>> THEN by_account
    ELSE ByAccountLoop(Tail(rows), ByAccountStep(by_account, Head(rows)))

\* Faulty variant: the accounts left with nothing kept.
CleanedKeepEmpty(by_account) ==
    [account_id \in DOMAIN by_account |-> RemoveDust(by_account[account_id])]

\* Remove near-zero dust, and the accounts left with nothing.
Cleaned(by_account) ==
    [account_id \in {a \in DOMAIN by_account : RemoveDust(by_account[a]) # EmptyDict}
        |-> RemoveDust(by_account[account_id])]

compute_holdings_by_account(session, user_id) ==
    Cleaned(ByAccountLoop(ByAccountRows(session, user_id), EmptyDict))

(***************************************************************************)
(* Floating point beyond whole units.  The valuation multiplies and        *)
(* divides, so its numbers are dyadic fractions <<n, d>> (n / d, d a power *)
(* of two, in lowest terms), again rounded to MantBits significant bits,   *)
(* ties to even.  On whole numbers FRound agrees with Round.               *)
(*                                                                         *)
(* Units.  A quantity counts units of 1e-10; a price counts units of 1e4,  *)
(* so that a value (quantity x price) counts units of 1e-6 and the         *)
(* planner's threshold of 1e-6 is one unit of value.                       *)
(***************************************************************************)
Eps == 1

RECURSIVE Reduce(_, _)
Reduce(n, d) == IF d > 1 /\ n % 2 = 0 THEN Reduce(n \div 2, d \div 2) ELSE <<n, d>>

\* The MantBits-bit mantissa q and the binary exponent k of a / d, a > 0.
RECURSIVE Normalise(_, _, _)
Normalise(a, d, k) ==
    IF a < d * Pow2(MantBits - 1) THEN Normalise(2 * a, d, k - 1)
    ELSE IF a >= d * Pow2(MantBits) THEN Normalise(a, 2 * d, k + 1)
    ELSE LET q == a \div d
             r == a % d
             up == 2 * r > d \/ (2 * r = d /\ q % 2 = 1)
         IN  <<IF up THEN q + 1 ELSE q, k>>

\* The representable number nearest to n / d (d > 0), ties to even.
FRound(n, d) ==
    IF n = 0 THEN <<0, 1>>
    ELSE LET qk == Normalise(Abs(n), d, 0)
             mag == IF qk[2] >= 0 THEN <<qk[1] * Pow2(qk[2]), 1>>
                    ELSE Reduce(qk[1], Pow2(-qk[2]))
         IN  IF n < 0 THEN <<-mag[1], mag[2]>> ELSE mag

\* A whole float as a fraction, and the arithmetic of the valuation.
Whole(i) == <<i, 1>>
Zero == Whole(0)
FMul(a, b) == FRound(a[1] * b[1], a[2] * b[2])
FPlus(a, b) == FRound(a[1] * b[2] + b[1] * a[2], a[2] * b[2])
FMinus(a, b) == FRound(a[1] * b[2] - b[1] * a[2], a[2] * b[2])
FNeg(a) == <<-a[1], a[2]>>
Less(a, b) == a[1] * b[2] < b[1] * a[2]
LessEq(a, b) == a[1] * b[2] <= b[1] * a[2]
\* Faulty variant: all that the source has left is moved.
MinTakesFirst(a, b) == a

Min(a, b) == IF LessEq(a, b) THEN a ELSE b

\* Faulty variant: a product where the code divides.
FDivMultiplies(a, b) == FMul(a, b)

\* a / b; Python raises ZeroDivisionError when b is 0 (here the fraction
\* with denominator 0).
ZeroDivisionError == <<0, 0>>
FDiv(a, b) ==
    IF b[1] = 0 THEN ZeroDivisionError
    ELSE IF b[1] > 0 THEN FRound(a[1] * b[2], a[2] * b[1])
    ELSE FRound(-(a[1] * b[2]), a[2] * (-b[1]))

(***************************************************************************)
(* _latest_price_map.                                                      *)
(***************************************************************************)
Price(asset_id, ts, price, base_currency) ==
    [asset_id |-> asset_id, ts |-> ts, price |-> price, base_currency |-> base_currency]

\* Faulty variant: the query without its filter on the currency.
PriceRowsAnyCurrency(session, base_currency) == DOMAIN session

\* The rows of the query: the prices in the requested currency.
PriceRows(session, base_currency) ==
    {i \in DOMAIN session : session[i].base_currency = base_currency}

\* Faulty variant: the rows in ascending order of the timestamp.
FirstRowsAscending(session, base_currency, asset_id) ==
    {i \in PriceRows(session, base_currency) :
        /\ session[i].asset_id = asset_id
        /\ \A j \in PriceRows(session, base_currency) :
              session[j].asset_id = asset_id => session[j].ts >= session[i].ts}

\* The rows that can come first for an asset under ORDER BY asset_id, ts
\* DESC: those with the asset's greatest timestamp.  SQL leaves the order of
\* rows with equal timestamps open.
FirstRows(session, base_currency, asset_id) ==
    {i \in PriceRows(session, base_currency) :
        /\ session[i].asset_id = asset_id
        /\ \A j \in PriceRows(session, base_currency) :
              session[j].asset_id = asset_id => session[j].ts <= session[i].ts}

PricedAssets(session, base_currency) ==
    {session[i].asset_id : i \in PriceRows(session, base_currency)}

\* Every map the loop can build: per asset the float of the price of the row
\* that came first.
latest_price_map(session, base_currency) ==
    {[asset_id \in PricedAssets(session, base_currency) |->
         Whole(float(session[pick[asset_id]].price))] :
       pick \in {f \in [PricedAssets(session, base_currency) -> DOMAIN session] :
                   \A a \in PricedAssets(session, base_currency) :
                       f[a] \in FirstRows(session, base_currency, a)}}

(***************************************************************************)
(* compute_values.                                                         *)
(***************************************************************************)
\* Faulty variant: an asset without a price recorded with value zero.
ValuesStepZeroForUnpriced(acc, asset_id, quantities, price_map) ==
    LET q == Whole(DictGet(quantities, asset_id, 0))
        v == IF asset_id \in DOMAIN price_map THEN FMul(q, price_map[asset_id]) ELSE Zero
    IN  [total_value |-> FPlus(acc.total_value, v),
         values |-> DictPut(acc.values, asset_id, v)]

\* One pass of the loop: an asset without a price is skipped.
ValuesStep(acc, asset_id, quantities, price_map) ==
    IF asset_id \notin DOMAIN price_map THEN acc
    ELSE LET q == Whole(DictGet(quantities, asset_id, 0))
             v == FMul(q, price_map[asset_id])
         IN  [total_value |-> FPlus(acc.total_value, v),
              values |-> DictPut(acc.values, asset_id, v)]

RECURSIVE ValuesLoop(_, _, _, _)
ValuesLoop(weights_assets, acc, quantities, price_map) ==
    IF weights_assets = <<>> THEN acc
    ELSE ValuesLoop(Tail(weights_assets),
                    ValuesStep(acc, Head(weights_assets), quantities, price_map),
                    quantities, price_map)

\* Faulty variant: every asset held is valued, requested or not.
RECURSIVE Ascending(_)
Ascending(S) ==
    IF S = {} THEN <<>>
    ELSE LET least == CHOOSE x \in S : \A y \in S : x <= y
         IN  <<least>> \o Ascending(S \ {least})

compute_values_of_holdings(weights_assets, quantities, price_map) ==
    ValuesLoop(weights_assets
                   \o Ascending(DOMAIN quantities
                                    \ {weights_assets[i] : i \in DOMAIN weights_assets}),
               [total_value |-> Zero, values |-> EmptyDict], quantities, price_map)

compute_values(weights_assets, quantities, price_map) ==
    ValuesLoop(weights_assets, [total_value |-> Zero, values |-> EmptyDict],
               quantities, price_map)

(***************************************************************************)
(* suggest_rebalance.                                                      *)
(***************************************************************************)
\* A target weight is stored as a decimal fraction <<n, d>> (n / d).
Allocation(portfolio_id, asset_id, target_weight) ==
    [portfolio_id |-> portfolio_id, asset_id |-> asset_id, target_weight |-> target_weight]

\* float(a.target_weight).
FloatOf(decimal) == FRound(decimal[1], decimal[2])

\* The allocations of the portfolio, in store order.
AllocationRows(session, portfolio_id) ==
    SelectSeq(session, LAMBDA a : a.portfolio_id = portfolio_id)

\* target_weights and the list of its keys, in the order of the rows.
TargetWeights(rows) ==
    [aid \in {rows[i].asset_id : i \in DOMAIN rows} |->
        FloatOf(rows[CHOOSE i \in DOMAIN rows :
                        /\ rows[i].asset_id = aid
                        /\ \A j \in DOMAIN rows : rows[j].asset_id = aid => j <= i].target_weight)]

RECURSIVE Keys(_)
Keys(rows) ==
    IF rows = <<>> THEN <<>>
    ELSE LET rest == Keys(SubSeq(rows, 1, Len(rows) - 1))
             aid == rows[Len(rows)].asset_id
         IN  IF \E i \in DOMAIN rest : rest[i] = aid THEN rest ELSE Append(rest, aid)

\* deltas: target value minus current value, per allocated asset.
DeltaValues(asset_ids, target_weights, total_value, values) ==
    [aid \in {asset_ids[i] : i \in DOMAIN asset_ids} |->
        FMinus(FMul(target_weights[aid], total_value), DictGet(values, aid, Zero))]

\* The (asset, value to shed) pairs and the (asset, value to gain) pairs,
\* in the order of the keys.
\* Faulty variant: the sign of the test is the wrong way round, and the
\* assets below their target are taken for sources.
SourcesBelowTarget(asset_ids, deltas) ==
    SelectSeq([i \in DOMAIN asset_ids |-> <<asset_ids[i], deltas[asset_ids[i]]>>],
              LAMBDA x : Less(Whole(Eps), x[2]))

Sources(asset_ids, deltas) ==
    SelectSeq([i \in DOMAIN asset_ids |-> <<asset_ids[i], FNeg(deltas[asset_ids[i]])>>],
              LAMBDA x : Less(FNeg(x[2]), Whole(-Eps)))

\* Faulty variant: every asset below its target is a destination.
DestsAboveZero(asset_ids, deltas) ==
    SelectSeq([i \in DOMAIN asset_ids |-> <<asset_ids[i], deltas[asset_ids[i]]>>],
              LAMBDA x : Less(Zero, x[2]))

Dests(asset_ids, deltas) ==
    SelectSeq([i \in DOMAIN asset_ids |-> <<asset_ids[i], deltas[asset_ids[i]]>>],
              LAMBDA x : Less(Whole(Eps), x[2]))

\* list.sort(key=value, reverse=True): descending, equal values keep their
\* order.
\* Faulty variant: an entry goes before the entries of its own value.
RECURSIVE InsertDescBeforeEqual(_, _)
InsertDescBeforeEqual(x, sorted) ==
    IF sorted = <<>> THEN <<x>>
    ELSE IF Less(x[2], Head(sorted)[2])
         THEN <<Head(sorted)>> \o InsertDescBeforeEqual(x, Tail(sorted))
    ELSE <<x>> \o sorted

RECURSIVE InsertDesc(_, _)
InsertDesc(x, sorted) ==
    IF sorted = <<>> THEN <<x>>
    ELSE IF LessEq(x[2], Head(sorted)[2]) THEN <<Head(sorted)>> \o InsertDesc(x, Tail(sorted))
    ELSE <<x>> \o sorted

\* Faulty variant: the list is left in the order of the keys.
Unsorted(s) == s

RECURSIVE SortDesc(_)
SortDesc(s) ==
    IF s = <<>> THEN <<>>
    ELSE InsertDesc(s[Len(s)], SortDesc(SubSeq(s, 1, Len(s) - 1)))

\* Faulty variant: any price that is there and not zero will do.
UsableWhenTruthy(price_map, from_aid) ==
    /\ from_aid \in DOMAIN price_map
    /\ price_map[from_aid][1] # 0

\* `if not from_price or from_price <= 0`.
Usable(price_map, from_aid) ==
    /\ from_aid \in DOMAIN price_map
    /\ price_map[from_aid][1] > 0

\* Faulty variant: the value moved is not taken off the source.
PairingStepSourceKept(st, price_map) ==
    LET from == st.sources[st.s_idx]
        to == st.dests[st.d_idx]
        move_value == Min(from[2], to[2])
        qty_from == FDiv(move_value, price_map[from[1]])
        dests == [st.dests EXCEPT ![st.d_idx] = <<to[1], FMinus(to[2], move_value)>>]
    IN  [sources |-> st.sources,
         dests |-> dests,
         s_idx |-> st.s_idx,
         d_idx |-> IF LessEq(dests[st.d_idx][2], Whole(Eps)) THEN st.d_idx + 1 ELSE st.d_idx,
         legs |-> Append(st.legs, <<from[1], to[1], qty_from>>),
         steps |-> Append(st.steps, [sources |-> st.sources, dests |-> st.dests,
                                     s_idx |-> st.s_idx, d_idx |-> st.d_idx,
                                     move_value |-> move_value]),
         broke |-> FALSE]

\* Faulty variant: the value moved is not taken off the destination.
PairingStepDestKept(st, price_map) ==
    LET from == st.sources[st.s_idx]
        to == st.dests[st.d_idx]
        move_value == Min(from[2], to[2])
        qty_from == FDiv(move_value, price_map[from[1]])
        sources == [st.sources EXCEPT ![st.s_idx] = <<from[1], FMinus(from[2], move_value)>>]
    IN  [sources |-> sources,
         dests |-> st.dests,
         s_idx |-> IF LessEq(sources[st.s_idx][2], Whole(Eps)) THEN st.s_idx + 1 ELSE st.s_idx,
         d_idx |-> st.d_idx,
         legs |-> Append(st.legs, <<from[1], to[1], qty_from>>),
         steps |-> Append(st.steps, [sources |-> st.sources, dests |-> st.dests,
                                     s_idx |-> st.s_idx, d_idx |-> st.d_idx,
                                     move_value |-> move_value]),
         broke |-> FALSE]

\* Faulty variant: both indexes move on after every leg.
PairingStepAdvancesBoth(st, price_map) ==
    LET from == st.sources[st.s_idx]
        to == st.dests[st.d_idx]
        move_value == Min(from[2], to[2])
        qty_from == FDiv(move_value, price_map[from[1]])
        sources == [st.sources EXCEPT ![st.s_idx] = <<from[1], FMinus(from[2], move_value)>>]
        dests == [st.dests EXCEPT ![st.d_idx] = <<to[1], FMinus(to[2], move_value)>>]
    IN  [sources |-> sources,
         dests |-> dests,
         s_idx |-> st.s_idx + 1,
         d_idx |-> st.d_idx + 1,
         legs |-> Append(st.legs, <<from[1], to[1], qty_from>>),
         steps |-> Append(st.steps, [sources |-> st.sources, dests |-> st.dests,
                                     s_idx |-> st.s_idx, d_idx |-> st.d_idx,
                                     move_value |-> move_value]),
         broke |-> FALSE]

\* One iteration of the pairing loop that emits a leg.  Each step records
\* the lists and the indexes it started from and the value it moved.
PairingStep(st, price_map) ==
    LET from == st.sources[st.s_idx]
        to == st.dests[st.d_idx]
        move_value == Min(from[2], to[2])
        qty_from == FDiv(move_value, price_map[from[1]])
        sources == [st.sources EXCEPT ![st.s_idx] = <<from[1], FMinus(from[2], move_value)>>]
        dests == [st.dests EXCEPT ![st.d_idx] = <<to[1], FMinus(to[2], move_value)>>]
    IN  [sources |-> sources,
         dests |-> dests,
         s_idx |-> IF LessEq(sources[st.s_idx][2], Whole(Eps)) THEN st.s_idx + 1 ELSE st.s_idx,
         d_idx |-> IF LessEq(dests[st.d_idx][2], Whole(Eps)) THEN st.d_idx + 1 ELSE st.d_idx,
         legs |-> Append(st.legs, <<from[1], to[1], qty_from>>),
         steps |-> Append(st.steps, [sources |-> st.sources, dests |-> st.dests,
                                     s_idx |-> st.s_idx, d_idx |-> st.d_idx,
                                     move_value |-> move_value]),
         broke |-> FALSE]

\* Faulty variant: a source without a usable price is passed over and the
\* loop goes on with the next one.
RECURSIVE PairingLoopSkipsUnpriced(_, _)
PairingLoopSkipsUnpriced(st, price_map) ==
    IF ~(st.s_idx <= Len(st.sources) /\ st.d_idx <= Len(st.dests)) THEN st
    ELSE IF ~Usable(price_map, st.sources[st.s_idx][1])
         THEN PairingLoopSkipsUnpriced([st EXCEPT !.s_idx = @ + 1], price_map)
    ELSE PairingLoopSkipsUnpriced(PairingStep(st, price_map), price_map)

\* The pairing loop (indexes count from 1).
RECURSIVE PairingLoop(_, _)
PairingLoop(st, price_map) ==
    IF ~(st.s_idx <= Len(st.sources) /\ st.d_idx <= Len(st.dests)) THEN st
    ELSE IF ~Usable(price_map, st.sources[st.s_idx][1]) THEN [st EXCEPT !.broke = TRUE]
    ELSE PairingLoop(PairingStep(st, price_map), price_map)

\* What a call returns (raised = FALSE: the tuple total_value,
\* current_weights, target_weights, legs) or that it raised, with the
\* locals of the call.
Returned(total_value, current_weights, target_weights, legs, locals) ==
    [raised |-> (\E aid \in DOMAIN current_weights : current_weights[aid] = ZeroDivisionError)
                \/ (\E i \in DOMAIN legs : legs[i][3] = ZeroDivisionError),
     total_value |-> total_value, current_weights |-> current_weights,
     target_weights |-> target_weights, legs |-> legs, locals |-> locals]

NoLocals ==
    [price_map |-> EmptyDict, quantities |-> EmptyDict, values |-> EmptyDict,
     total_value |-> Zero, deltas |-> EmptyDict, sources |-> <<>>, dests |-> <<>>,
     steps |-> <<>>, broke |-> FALSE,
     left |-> [sources |-> <<>>, dests |-> <<>>, s_idx |-> 1, d_idx |-> 1]]

\* Faulty variant: a portfolio without allocations is an error.
UnconfiguredRaises ==
    [Returned(Zero, EmptyDict, EmptyDict, <<>>, NoLocals) EXCEPT !.raised = TRUE]

\* `if not allocations: return 0.0, {}, {}, []`.
Unconfigured == Returned(Zero, EmptyDict, EmptyDict, <<>>, NoLocals)

\* Faulty variant: only a negative total ends the call early.
WorthlessWhenNegative(total_value) == Less(total_value, Zero)

\* `if total_value <= 0`.
Worthless(total_value) == LessEq(total_value, Zero)

\* Faulty variant: the early return gives the total as computed.
NothingToValueKeepsTotal(target_weights, seen) ==
    Returned(seen.total_value, EmptyDict, target_weights, <<>>, seen)

\* `return 0.0, {}, target_weights, []`.
NothingToValue(target_weights, seen) ==
    Returned(Zero, EmptyDict, target_weights, <<>>, seen)

\* Faulty variant: only the assets with a value get a weight.
CurrentWeightsOfValued(asset_ids, values, total_value) ==
    [aid \in DOMAIN values |-> FDiv(values[aid], total_value)]

\* current_weights: values.get(aid, 0.0) / total_value for every key.
CurrentWeights(asset_ids, values, total_value) ==
    [aid \in {asset_ids[i] : i \in DOMAIN asset_ids} |->
        FDiv(DictGet(values, aid, Zero), total_value)]

\* suggest_rebalance, given the rows of its three queries (the allocations
\* of the portfolio, the latest price map, the holdings of the user).
suggest_rebalance(allocations_rows, price_map, quantities) ==
    IF allocations_rows = <<>> THEN Unconfigured
    ELSE
    LET target_weights == TargetWeights(allocations_rows)
        asset_ids == Keys(allocations_rows)
        cv == compute_values(asset_ids, quantities, price_map)
        total_value == cv.total_value
        values == cv.values
        seen == [NoLocals EXCEPT !.price_map = price_map, !.quantities = quantities,
                                 !.values = values, !.total_value = total_value]
    IN  IF Worthless(total_value) THEN NothingToValue(target_weights, seen)
        ELSE
        LET current_weights == CurrentWeights(asset_ids, values, total_value)
            deltas == DeltaValues(asset_ids, target_weights, total_value, values)
            sources == SortDesc(Sources(asset_ids, deltas))
            dests == SortDesc(Dests(asset_ids, deltas))
            end == PairingLoop([sources |-> sources, dests |-> dests, s_idx |-> 1, d_idx |-> 1,
                                legs |-> <<>>, steps |-> <<>>, broke |-> FALSE], price_map)
        IN  Returned(total_value, current_weights, target_weights, end.legs,
                     [seen EXCEPT !.deltas = deltas,
                                  !.sources = Sources(asset_ids, deltas),
                                  !.dests = Dests(asset_ids, deltas),
                                  !.steps = end.steps, !.broke = end.broke,
                                  !.left = [sources |-> end.sources, dests |-> end.dests,
                                            s_idx |-> end.s_idx, d_idx |-> end.d_idx]])

(***************************************************************************)
(* The store and the requests.                                             *)
(***************************************************************************)
\* Rows of the store that no endpoint of this revision writes: income rows
\* (create_income fails before it stores anything), rebalance and transfer
\* rows, and rows that carry the leg their type does not use.
SeedRows ==
    { Transaction(1, 1, "income", NULL, NoAmount, 1, Some(3)),
      Transaction(1, 1, "income", 2, Some(3), 1, Some(8)),
      Transaction(1, 1, "expense", 1, Some(3), 2, Some(8)),
      Transaction(1, NULL, "rebalance", 1, Some(3), 2, Some(8)),
      Transaction(1, 2, "transfer", 1, Some(3), 2, Some(3)) }

SeedLogs == {<<>>} \cup {<<t>> : t \in SeedRows}

\* ExpenseQuickAdd payloads: <<user_id, account_id, currency_asset_id, amount>>.
\* amount is a float field without a constraint: a negative one is accepted.
ExpenseQuickAdd ==
    { <<1, 1, 1, 3>>, <<1, 2, 2, 0>>, <<1, NULL, 1, 8>>, <<2, 1, 1, 8>>, <<1, 1, 2, -3>> }

\* TradeCreate payloads:
\* <<user_id, account_id, from_asset_id, from_amount, to_asset_id, to_amount>>.
TradeCreate ==
    { <<1, NULL, 2, 3, 1, 8>>, <<1, NULL, 1, 8, 2, 3>>,
      <<1, 1, 2, 1, 1, 2>>, <<1, 1, 1, 2, 2, 1>>,
      <<1, 2, 1, 0, 2, 1>>, <<2, 2, 1, 3, 2, 8>>,
      <<1, 2, 2, -1, 1, 2>> }

\* IncomeCreate payloads: <<user_id, account_id, to_asset_id, to_amount>>.
IncomeCreate == { <<1, 1, 1, 3>> }

NoResponse == [op |-> "none", user_id |-> NULL, result |-> EmptyDict]
Response(op, user_id, result) == [op |-> op, user_id |-> user_id, result |-> result]

Init ==
    /\ log \in SeedLogs
    /\ accounts = Accounts
    /\ out = NoResponse
    /\ deleted = FALSE
    /\ prices = <<>>
    /\ allocations = <<>>

\* POST /transactions/expense
quick_add_expense ==
    \E payload \in ExpenseQuickAdd :
        /\ Len(log) < MaxLog
        /\ log' = Append(log, Transaction(payload[1], payload[2], "expense",
                                          payload[3], Some(payload[4]), NULL, NoAmount))
        /\ out' = NoResponse
        /\ UNCHANGED <<accounts, deleted, prices, allocations>>

\* POST /transactions/trade
create_trade ==
    \E payload \in TradeCreate :
        /\ Len(log) < MaxLog
        /\ log' = Append(log, Transaction(payload[1], payload[2], "trade",
                                          payload[3], Some(payload[4]),
                                          payload[5], Some(payload[6])))
        /\ out' = NoResponse
        /\ UNCHANGED <<accounts, deleted, prices, allocations>>

\* POST /transactions/income: reading payload.category_id, a field IncomeCreate
\* does not have, raises before the row is added; the session rolls back.
create_income ==
    \E payload \in IncomeCreate :
        /\ out' = Response("create_income_error", NULL, EmptyDict)
        /\ UNCHANGED <<log, accounts, deleted, prices, allocations>>

\* DELETE /meta/accounts/{account_id}: 404 without the account; otherwise the
\* account goes, and with it (cascade "all, delete-orphan") its transactions.
delete_account ==
    \E account_id \in Accounts :
        IF account_id \notin accounts
        THEN /\ out' = Response("delete_account_404", NULL, EmptyDict)
             /\ UNCHANGED <<log, accounts, deleted, prices, allocations>>
        ELSE /\ accounts' = accounts \ {account_id}
             /\ log' = SelectSeq(log, LAMBDA t : t.account_id # account_id)
             /\ deleted' = (deleted \/ \E i \in DOMAIN log : log[i].account_id = account_id)
             /\ out' = NoResponse
             /\ UNCHANGED <<prices, allocations>>

\* Faulty variant: the quantities of the previous holdings query served again.
get_holdings_cached ==
    \E user_id \in Users :
        /\ out' = Response("get_holdings", user_id,
                           IF out.op = "get_holdings" THEN out.result
                           ELSE compute_holdings(log, user_id))
        /\ UNCHANGED <<log, accounts, deleted, prices, allocations>>

\* GET /portfolio/holdings: the quantities compute_holdings returns.
get_holdings ==
    \E user_id \in Users :
        /\ out' = Response("get_holdings", user_id, compute_holdings(log, user_id))
        /\ UNCHANGED <<log, accounts, deleted, prices, allocations>>

\* GET /portfolio/balances_by_account: the quantities
\* compute_holdings_by_account returns.
balances_by_account ==
    \E user_id \in Users :
        /\ out' = Response("balances_by_account", user_id,
                           compute_holdings_by_account(log, user_id))
        /\ UNCHANGED <<log, accounts, deleted, prices, allocations>>

Next ==
    \/ quick_add_expense
    \/ create_trade
    \/ create_income
    \/ delete_account
    \/ get_holdings
    \/ balances_by_account

Spec == Init /\ [][Next]_vars

\* The writes that append to the log, and the two queries: the aggregations
\* applied to every log the store can hold.
NextQueries ==
    \/ quick_add_expense
    \/ create_trade
    \/ create_income
    \/ get_holdings
    \/ balances_by_account

SpecQueries == Init /\ [][NextQueries]_vars

(***************************************************************************)
(* The price and allocation stores, and the rebalance request.             *)
(***************************************************************************)
\* The portfolios: id -> owner and base currency.
Portfolios ==
    (1 :> [user_id |-> 1, base_currency |-> "USD"])
    @@ (2 :> [user_id |-> 1, base_currency |-> "EUR"])

\* The timestamps a price can carry; a price posted without one gets the
\* clock of the store, which is any of them.
Timestamps == {1, 2}

\* PriceCreate payloads: <<asset_id, price, base_currency, ts>>, ts NULL when
\* the request leaves it out.
PriceCreate ==
    { <<1, 16, "USD", 2>>, <<1, 4, "USD", 1>>, <<1, 2, "USD", NULL>>,
      <<2, 4, "USD", 1>>, <<2, 3, "EUR", 1>>,
      <<3, 2, "USD", 1>>, <<3, -1, "USD", 2>> }

\* PortfolioAllocationsCreate payloads: <<portfolio_id, allocations>>, each
\* allocation <<asset_id, target_weight>> with the weight a decimal fraction.
PortfolioAllocationsCreate ==
    { <<1, << <<1, <<3, 4>>>>, <<2, <<1, 16>>>>, <<3, <<1, 16>>>>,
              <<4, <<1, 16>>>>, <<5, <<1, 16>>>>, <<6, <<1, 16>>>> >> >>,
      <<1, << <<1, <<1, 2>>>>, <<2, <<1, 2>>>> >> >>,
      <<1, << <<3, <<1, 2>>>>, <<1, <<1, 4>>>>, <<2, <<1, 4>>>> >> >>,
      <<1, << <<1, <<1, 2>>>>, <<2, <<1, 2>>>>, <<3, <<1, 2>>>> >> >>,
      <<1, << <<1, <<1, 4>>>>, <<2, <<1, 4>>>>, <<3, <<1, 8>>>>,
              <<4, <<1, 8>>>>, <<5, <<1, 8>>>> >> >>,
      <<1, << <<1, <<1, 4>>>>, <<3, <<0, 1>>>>, <<2, <<5, 16>>>>, <<4, <<1, 2>>>> >> >>,
      <<1, << >> >>,
      <<1, << <<1, <<1, 2>>>>, <<1, <<1, 2>>>> >> >>,
      <<1, << <<1, <<5, 4>>>> >> >>,
      <<3, << <<1, <<1, 2>>>> >> >> }

\* The logs the rebalance requests are checked over: no holdings, a holding
\* bought with an asset the user does not have, and the same with a holding
\* of a second asset.
HoldingsLogs ==
    { <<>>,
      <<Transaction(1, NULL, "trade", 3, Some(2), 1, Some(5))>>,
      <<Transaction(1, NULL, "trade", 3, Some(2), 1, Some(5)),
        Transaction(1, NULL, "trade", 2, Some(0), 2, Some(2))>> }

InitRebalance ==
    /\ log \in HoldingsLogs
    /\ accounts = Accounts
    /\ out = NoResponse
    /\ deleted = FALSE
    /\ prices = <<>>
    /\ allocations = <<>>

\* POST /meta/price: one more row; ts defaults to the clock of the store.
set_price ==
    \E payload \in PriceCreate :
        \E now \in Timestamps :
            /\ Len(prices) < MaxPrices
            /\ prices' = Append(prices, Price(payload[1],
                                              IF payload[4] = NULL THEN now ELSE payload[4],
                                              payload[2], payload[3]))
            /\ out' = NoResponse
            /\ UNCHANGED <<log, accounts, deleted, allocations>>

\* target_weight: float = Field(..., ge=0, le=1).
ValidWeight(w) == 0 <= w[1] /\ w[1] <= w[2]

\* UniqueConstraint("portfolio_id", "asset_id").
UniqueAssets(allocs) ==
    \A i, j \in DOMAIN allocs : allocs[i][1] = allocs[j][1] => i = j

\* POST /portfolio/allocations: 422 for a weight outside [0, 1], 404 without
\* the portfolio; otherwise the portfolio's rows are replaced by the
\* payload's, unless the flush fails on the unique constraint and the
\* session rolls back.
set_allocations ==
    \E payload \in PortfolioAllocationsCreate :
        IF \E i \in DOMAIN payload[2] : ~ValidWeight(payload[2][i][2])
        THEN /\ out' = Response("set_allocations_422", NULL, EmptyDict)
             /\ UNCHANGED <<log, accounts, deleted, prices, allocations>>
        ELSE IF payload[1] \notin DOMAIN Portfolios
        THEN /\ out' = Response("set_allocations_404", NULL, EmptyDict)
             /\ UNCHANGED <<log, accounts, deleted, prices, allocations>>
        ELSE IF ~UniqueAssets(payload[2])
        THEN /\ out' = Response("set_allocations_error", NULL, EmptyDict)
             /\ UNCHANGED <<log, accounts, deleted, prices, allocations>>
        ELSE /\ allocations' =
                    SelectSeq(allocations, LAMBDA a : a.portfolio_id # payload[1])
                    \o [i \in DOMAIN payload[2] |->
                           Allocation(payload[1], payload[2][i][1], payload[2][i][2])]
             /\ out' = NoResponse
             /\ UNCHANGED <<log, accounts, deleted, prices>>

RebalanceResponse(portfolio_id, user_id, result) ==
    [op |-> "rebalance", user_id |-> user_id, portfolio_id |-> portfolio_id,
     result |-> result]

\* GET /portfolio/rebalance: 404 without the portfolio; otherwise what
\* suggest_rebalance returns in the portfolio's base currency.
rebalance ==
    \E portfolio_id \in (DOMAIN Portfolios) \cup {3}, user_id \in Users :
        IF portfolio_id \notin DOMAIN Portfolios
        THEN /\ out' = Response("rebalance_404", NULL, EmptyDict)
             /\ UNCHANGED <<log, accounts, deleted, prices, allocations>>
        ELSE \E price_map \in latest_price_map(prices, Portfolios[portfolio_id].base_currency) :
                /\ out' = RebalanceResponse(portfolio_id, user_id,
                              suggest_rebalance(AllocationRows(allocations, portfolio_id),
                                                price_map, compute_holdings(log, user_id)))
                /\ UNCHANGED <<log, accounts, deleted, prices, allocations>>

NextRebalance ==
    \/ set_price
    \/ set_allocations
    \/ rebalance

SpecRebalance == InitRebalance /\ [][NextRebalance]_vars

(***************************************************************************)
(* What the aggregations are expected to return, stated per asset and      *)
(* independently of the loops above.                                       *)
(***************************************************************************)
Holds(op) == out.op = op

\* The orderings of a sequence.
Perms(s) == {[i \in 1..Len(s) |-> s[f[i]]] : f \in Permutations(1..Len(s))}

\* The signed amounts one row moves on asset aid when both legs count (a
\* trade or a rebalance): the from leg first, then the to leg.
TradeDeltas(t, aid) ==
    (IF t.from_asset_id = aid /\ Truthy(t.from_asset_id, t.from_amount)
     THEN <<-t.from_amount[1]>> ELSE <<>>)
    \o (IF t.to_asset_id = aid /\ Truthy(t.to_asset_id, t.to_amount)
        THEN <<t.to_amount[1]>> ELSE <<>>)

\* The signed amounts the rows of a trade/rebalance log move on asset aid.
RECURSIVE Deltas(_, _)
Deltas(rows, aid) ==
    IF rows = <<>> THEN <<>>
    ELSE TradeDeltas(Head(rows), aid) \o Deltas(Tail(rows), aid)

\* The floating-point running total of signed amounts, left to right.
RECURSIVE RunningTotal(_, _)
RunningTotal(ds, acc) ==
    IF ds = <<>> THEN acc
    ELSE RunningTotal(Tail(ds), Round(acc + Round(Head(ds))))

\* The exact (mathematical) sum, and the sum of the magnitudes.
RECURSIVE Sum(_)
Sum(ds) == IF ds = <<>> THEN 0 ELSE Head(ds) + Sum(Tail(ds))

RECURSIVE Magnitude(_)
Magnitude(ds) == IF ds = <<>> THEN 0 ELSE Abs(Head(ds)) + Magnitude(Tail(ds))

\* The user's trade and rebalance rows, in store order.
TradesOf(rows, user_id) ==
    SelectSeq(rows, LAMBDA t : t.user_id = user_id
                               /\ (t.type = "trade" \/ t.type = "rebalance"))

\* No partial sum of the user's holdings is rounded, in any order of the
\* rows: per asset the magnitudes add up to a number floats hold exactly.
ExactRange(rows, user_id) ==
    \A aid \in Assets : Magnitude(Deltas(TradesOf(rows, user_id), aid)) <= Pow2(MantBits)

\* asset -> floating-point running total, without the dust.
ExpectedHoldings(rows, user_id) ==
    LET total(aid) == RunningTotal(Deltas(TradesOf(rows, user_id), aid), 0)
    IN  [aid \in {a \in Assets : Abs(total(a)) > Dust} |-> total(aid)]

\* asset -> sum of to_amount minus sum of from_amount, without the dust.
ExactHoldings(rows, user_id) ==
    LET total(aid) == Sum(Deltas(TradesOf(rows, user_id), aid))
    IN  [aid \in {a \in Assets : Abs(total(a)) > Dust} |-> total(aid)]

(***************************************************************************)
(* C1.                                                                     *)
(***************************************************************************)
\* C1 as stated: whatever the order of the rows of the log, compute_holdings
\* returns the mapping it returned for the order of the store.
C1_AnyOrderSameHoldings ==
    Holds("get_holdings") =>
        \A p \in Perms(log) : compute_holdings(p, out.user_id) = out.result

\* C1 amended: compute_holdings returns the same mapping for every order of
\* the rows provided no partial sum is rounded (per asset the magnitudes of
\* the amounts add up to a number floats represent exactly).
C1_AnyOrderSameHoldingsWhenExact ==
    Holds("get_holdings") /\ ExactRange(log, out.user_id) =>
        \A p \in Perms(log) : compute_holdings(p, out.user_id) = out.result

\* Three rows of the user move the same asset, nothing is rounded, and the
\* asset is held.
C1_Witness ==
    /\ Holds("get_holdings")
    /\ ExactRange(log, out.user_id)
    /\ \E aid \in DOMAIN out.result :
          /\ Len(Deltas(TradesOf(log, out.user_id), aid)) >= 3
          /\ \E i, j \in DOMAIN log : i < j /\ log[i] # log[j]

(***************************************************************************)
(* C2.                                                                     *)
(***************************************************************************)
\* The exact inverse of a trade.
Inverse(t) ==
    Transaction(t.user_id, t.account_id, "trade",
                t.to_asset_id, t.to_amount, t.from_asset_id, t.from_amount)

\* The log ends with a trade followed by its exact inverse.
EndsWithRoundTrip ==
    /\ Len(log) >= 2
    /\ log[Len(log) - 1].type = "trade"
    /\ log[Len(log)] = Inverse(log[Len(log) - 1])

BeforeRoundTrip == SubSeq(log, 1, Len(log) - 2)

\* C2 as stated: a trade followed by its exact inverse leaves compute_holdings
\* with the mapping it had before the two rows.
C2_RoundTripRestores ==
    Holds("get_holdings") /\ EndsWithRoundTrip =>
        out.result = compute_holdings(BeforeRoundTrip, out.user_id)

\* C2 amended: a trade followed by its exact inverse leaves compute_holdings
\* with the mapping it had before, provided no partial sum is rounded.
C2_RoundTripRestoresWhenExact ==
    Holds("get_holdings") /\ EndsWithRoundTrip /\ ExactRange(log, out.user_id) =>
        out.result = compute_holdings(BeforeRoundTrip, out.user_id)

\* The user holds something, trades and trades back, nothing is rounded.
C2_Witness ==
    /\ Holds("get_holdings")
    /\ EndsWithRoundTrip
    /\ log[Len(log)].user_id = out.user_id
    /\ ExactRange(log, out.user_id)
    /\ out.result # EmptyDict

C4_NoDustInHoldings ==
    Holds("get_holdings") =>
        /\ \A aid \in DOMAIN out.result : Abs(out.result[aid]) > Dust
        /\ \A aid \in Assets :
              Abs(RunningTotal(Deltas(TradesOf(log, out.user_id), aid), 0)) <= Dust
                  => aid \notin DOMAIN out.result

\* One asset the user traded nets to exactly zero and another to a non-zero
\* residual within the threshold; both are absent.
C4_Witness ==
    /\ Holds("get_holdings")
    /\ \E a, b \in Assets \ DOMAIN out.result :
          LET da == Deltas(TradesOf(log, out.user_id), a)
              db == Deltas(TradesOf(log, out.user_id), b)
          IN  /\ da # <<>> /\ RunningTotal(da, 0) = 0
              /\ db # <<>> /\ RunningTotal(db, 0) # 0

(***************************************************************************)
(* C5.                                                                     *)
(***************************************************************************)
\* C5: every compute_holdings call, whatever inserts, deletes and queries
\* came before it, returns the aggregation of exactly the rows in the log
\* at the moment of the call, and leaves the log as it is.
C5_HoldingsOfTheLogAtTheCall ==
    [][out'.op = "get_holdings" /\ out' # out =>
          /\ out'.result = ExpectedHoldings(log, out'.user_id)
          /\ log' = log]_vars

\* A query answered after a delete_account removed rows from the log.
C5_Witness ==
    /\ Holds("get_holdings")
    /\ deleted
    /\ out.result # EmptyDict

(***************************************************************************)
(* What compute_holdings_by_account is expected to return, stated per      *)
(* account and asset.                                                      *)
(***************************************************************************)
\* The signed amount(s) one row moves on asset aid of its account: minus
\* from_amount for a trade, a rebalance or an expense, plus to_amount for a
\* trade, a rebalance or an income.
AccountDeltas(t, aid) ==
    (IF t.type \in {"trade", "rebalance", "expense"}
        /\ t.from_asset_id = aid /\ Truthy(t.from_asset_id, t.from_amount)
     THEN <<-t.from_amount[1]>> ELSE <<>>)
    \o (IF t.type \in {"trade", "rebalance", "income"}
           /\ t.to_asset_id = aid /\ Truthy(t.to_asset_id, t.to_amount)
        THEN <<t.to_amount[1]>> ELSE <<>>)

\* The signed amounts the user's rows move on asset aid of account_id.
RECURSIVE DeltasOfAccount(_, _, _, _)
DeltasOfAccount(rows, user_id, account_id, aid) ==
    IF rows = <<>> THEN <<>>
    ELSE (IF Head(rows).user_id = user_id /\ Head(rows).account_id = account_id
          THEN AccountDeltas(Head(rows), aid) ELSE <<>>)
         \o DeltasOfAccount(Tail(rows), user_id, account_id, aid)

\* The assets of an account whose running total is above the dust.
HeldIn(rows, user_id, account_id) ==
    {aid \in Assets :
        Abs(RunningTotal(DeltasOfAccount(rows, user_id, account_id, aid), 0)) > Dust}

\* account -> asset -> floating-point running total, without the dust and
\* without the accounts that hold nothing.
ExpectedByAccount(rows, user_id) ==
    [account_id \in {a \in Accounts : HeldIn(rows, user_id, a) # {}} |->
        [aid \in HeldIn(rows, user_id, account_id) |->
            RunningTotal(DeltasOfAccount(rows, user_id, account_id, aid), 0)]]

\* No partial sum of any account of the user is rounded.
ExactRangeByAccount(rows, user_id) ==
    \A account_id \in Accounts, aid \in Assets :
        Magnitude(DeltasOfAccount(rows, user_id, account_id, aid)) <= Pow2(MantBits)

\* The user's rows of the by-account view: a counted type and an account.
TouchesAccount(t, user_id, account_id) ==
    /\ t.user_id = user_id
    /\ t.account_id = account_id
    /\ t.type \in {"trade", "rebalance", "expense", "income"}

(***************************************************************************)
(* C6.                                                                     *)
(***************************************************************************)
\* C6: compute_holdings_by_account returns no account with an empty asset
\* map and no position at or below the dust threshold: an account whose
\* positions all net to dust, or whose rows carried no usable amount, is
\* absent.
C6_NoEmptyAccount ==
    Holds("balances_by_account") =>
        \A account_id \in DOMAIN out.result :
            /\ out.result[account_id] # EmptyDict
            /\ \A aid \in DOMAIN out.result[account_id] :
                  Abs(out.result[account_id][aid]) > Dust

\* The user has rows on two accounts, one whose only row carries a zero
\* amount or whose positions cancel; one is returned and the other is not.
C6_Witness ==
    /\ Holds("balances_by_account")
    /\ out.result # EmptyDict
    /\ \E account_id \in Accounts \ DOMAIN out.result :
          \E i \in DOMAIN log : TouchesAccount(log[i], out.user_id, account_id)

(***************************************************************************)
(* C7.                                                                     *)
(***************************************************************************)
\* C7: per account and asset, compute_holdings_by_account returns the signed
\* total: plus to_amount of the account's trade, rebalance and income rows,
\* minus from_amount of its trade, rebalance and expense rows (the running
\* floating-point total, which is the exact sum when nothing is rounded);
\* nothing is clamped at zero, so a lone expense of a yields -a.
C7_SignedSumByAccount ==
    Holds("balances_by_account") =>
        /\ out.result = ExpectedByAccount(log, out.user_id)
        /\ ExactRangeByAccount(log, out.user_id) =>
              \A account_id \in DOMAIN out.result :
                  \A aid \in DOMAIN out.result[account_id] :
                      out.result[account_id][aid]
                          = Sum(DeltasOfAccount(log, out.user_id, account_id, aid))

\* An account whose only row is an expense of 3 of an asset holds -3 of it.
C7_Witness ==
    /\ Holds("balances_by_account")
    /\ \E account_id \in DOMAIN out.result, aid \in Assets :
          /\ \E i \in DOMAIN log :
                /\ TouchesAccount(log[i], out.user_id, account_id)
                /\ log[i].type = "expense"
                /\ log[i].from_asset_id = aid
                /\ log[i].from_amount = Some(3)
                /\ \A j \in DOMAIN log \ {i} : ~TouchesAccount(log[j], out.user_id, account_id)
          /\ out.result[account_id] = (aid :> -3)

(***************************************************************************)
(* C8.                                                                     *)
(***************************************************************************)
\* The row without the leg its type does not use: an expense without its to
\* leg, an income without its from leg.
WithoutOppositeLeg(t) ==
    IF t.type = "expense" THEN [t EXCEPT !.to_asset_id = NULL, !.to_amount = NoAmount]
    ELSE IF t.type = "income" THEN [t EXCEPT !.from_asset_id = NULL, !.from_amount = NoAmount]
    ELSE t

HasOppositeLeg(t) ==
    \/ t.type = "expense" /\ Truthy(t.to_asset_id, t.to_amount)
    \/ t.type = "income" /\ Truthy(t.from_asset_id, t.from_amount)

\* C8: in compute_holdings_by_account an expense never changes the balance
\* of its to_asset and an income never changes the balance of its
\* from_asset, even when the stored row carries that leg: the result is the
\* one of the log with those legs erased, and the asset of such a leg gets
\* no balance from the row.
C8_OppositeLegUntouched ==
    Holds("balances_by_account") =>
        /\ out.result = compute_holdings_by_account(
                            [i \in DOMAIN log |-> WithoutOppositeLeg(log[i])], out.user_id)
        /\ \A i \in DOMAIN log :
              /\ TouchesAccount(log[i], out.user_id, log[i].account_id)
              /\ HasOppositeLeg(log[i])
              /\ \A j \in DOMAIN log \ {i} :
                    ~TouchesAccount(log[j], out.user_id, log[i].account_id)
              => LET opposite == IF log[i].type = "expense" THEN log[i].to_asset_id
                                 ELSE log[i].from_asset_id
                     own == IF log[i].type = "expense" THEN log[i].from_asset_id
                            ELSE log[i].to_asset_id
                 IN  opposite # own /\ log[i].account_id \in DOMAIN out.result
                         => opposite \notin DOMAIN out.result[log[i].account_id]

\* The only row of an account is an expense that carries a to leg, or an
\* income that carries a from leg.
C8_Witness ==
    /\ Holds("balances_by_account")
    /\ \E i \in DOMAIN log :
          /\ TouchesAccount(log[i], out.user_id, log[i].account_id)
          /\ log[i].account_id # NULL
          /\ HasOppositeLeg(log[i])
          /\ \A j \in DOMAIN log \ {i} :
                ~TouchesAccount(log[j], out.user_id, log[i].account_id)

(***************************************************************************)
(* C9.                                                                     *)
(***************************************************************************)
WithAccount(rows) == SelectSeq(rows, LAMBDA t : t.account_id # NULL)

\* C9: a row without an account contributes to no account of
\* compute_holdings_by_account (the result is the one of the log without
\* such rows, and NULL is no key of it), while compute_holdings counts every
\* trade and rebalance row whatever its account.
C9_NoAccountNoBalance ==
    /\ Holds("balances_by_account") =>
          /\ out.result = compute_holdings_by_account(WithAccount(log), out.user_id)
          /\ NULL \notin DOMAIN out.result
    /\ Holds("get_holdings") =>
          out.result = compute_holdings(
                           [i \in DOMAIN log |-> [log[i] EXCEPT !.account_id = NULL]],
                           out.user_id)

\* The by-account view of a user whose trades without an account show in
\* the global holdings: without them the holdings would differ.
C9_Witness ==
    /\ Holds("balances_by_account")
    /\ \E i \in DOMAIN log :
          /\ log[i].user_id = out.user_id
          /\ log[i].account_id = NULL
          /\ log[i].type \in {"trade", "rebalance"}
    /\ compute_holdings(log, out.user_id) # compute_holdings(WithAccount(log), out.user_id)
    /\ compute_holdings(log, out.user_id) # EmptyDict

(***************************************************************************)
(* C10.                                                                    *)
(***************************************************************************)
OnlyUser(rows, user_id) == SelectSeq(rows, LAMBDA t : t.user_id = user_id)

\* C10: compute_holdings(user) and compute_holdings_by_account(user) depend
\* on the user's own rows only: the result is the one of the log with every
\* other user's row removed.
C10_OwnRowsOnly ==
    /\ Holds("get_holdings") =>
          out.result = compute_holdings(OnlyUser(log, out.user_id), out.user_id)
    /\ Holds("balances_by_account") =>
          out.result = compute_holdings_by_account(OnlyUser(log, out.user_id), out.user_id)

\* A user's result, while another user has rows with usable legs that are of
\* the counted types.
C10_Witness ==
    /\ Holds("get_holdings") \/ Holds("balances_by_account")
    /\ out.result # EmptyDict
    /\ \E i \in DOMAIN log :
          /\ log[i].user_id # out.user_id
          /\ log[i].type = (IF Holds("get_holdings") THEN "trade" ELSE "expense")
          /\ Truthy(log[i].from_asset_id, log[i].from_amount)
          /\ log[i].account_id # NULL

(***************************************************************************)
(* What a rebalance request saw and returned.                              *)
(***************************************************************************)
\* The answer held is one of suggest_rebalance past its first return: the
\* portfolio has allocations, so the prices and the holdings were read.
Suggested == Holds("rebalance") /\ out.result.target_weights # EmptyDict

\* The answer held is one of suggest_rebalance past its second return: the
\* allocated holdings are worth something, so the planner ran.
Planned == Suggested /\ out.result.current_weights # EmptyDict

BaseCurrency == Portfolios[out.portfolio_id].base_currency
Seen == out.result.locals

\* The rows of an asset in a currency, and the newest of them.
RowsOf(session, base_currency, asset_id) ==
    {i \in DOMAIN session : /\ session[i].asset_id = asset_id
                            /\ session[i].base_currency = base_currency}

Newest(session, base_currency, asset_id) ==
    {i \in RowsOf(session, base_currency, asset_id) :
        \A j \in RowsOf(session, base_currency, asset_id) : session[j].ts <= session[i].ts}

(***************************************************************************)
(* C11.                                                                    *)
(***************************************************************************)
\* C11: after any sequence of set_price insertions the latest price map of a
\* currency gives each asset the price of an entry with the greatest
\* timestamp among the asset's entries in that currency (the entry, when
\* one entry has it), and an insertion with a timestamp older than the
\* asset's greatest leaves the latest price map of every currency as it was.
C11_LatestPriceIsNewest ==
    [][LET answered == out'.op = "rebalance" /\ out'.result.target_weights # EmptyDict
           newest(aid) == Newest(prices', Portfolios[out'.portfolio_id].base_currency, aid)
           older == /\ Len(prices') = Len(prices) + 1
                    /\ \E i \in DOMAIN prices :
                          /\ prices[i].asset_id = prices'[Len(prices')].asset_id
                          /\ prices[i].base_currency = prices'[Len(prices')].base_currency
                          /\ prices[i].ts > prices'[Len(prices')].ts
       IN  /\ answered =>
                  \A aid \in DOMAIN out'.result.locals.price_map :
                      \E i \in newest(aid) :
                          out'.result.locals.price_map[aid] = Whole(Round(prices'[i].price))
           /\ older =>
                  \A base_currency \in {"USD", "EUR"} :
                      latest_price_map(prices', base_currency)
                          = latest_price_map(prices, base_currency)]_vars

\* An asset got a price, then one with an older timestamp and another
\* amount; the request saw the first.
C11_Witness ==
    /\ Suggested
    /\ \E i, j \in DOMAIN prices :
          /\ i < j
          /\ prices[i].asset_id = prices[j].asset_id
          /\ prices[i].base_currency = BaseCurrency
          /\ prices[j].base_currency = BaseCurrency
          /\ prices[j].ts < prices[i].ts
          /\ prices[j].price # prices[i].price
          /\ Newest(prices, BaseCurrency, prices[i].asset_id) = {i}
          /\ Seen.price_map[prices[i].asset_id] = Whole(prices[i].price)

(***************************************************************************)
(* C12.                                                                    *)
(***************************************************************************)
\* C12: the latest price map of a base currency has exactly the assets with
\* an entry in that currency, each with the price of one of its entries in
\* that currency: an asset priced only in other currencies is absent, and no
\* price is a default or taken from another currency.
C12_OnlyPricesOfTheCurrency ==
    Suggested =>
        /\ DOMAIN Seen.price_map
              = {aid \in {prices[i].asset_id : i \in DOMAIN prices} :
                    RowsOf(prices, BaseCurrency, aid) # {}}
        /\ \A aid \in DOMAIN Seen.price_map :
              \E i \in RowsOf(prices, BaseCurrency, aid) :
                  Seen.price_map[aid] = Whole(Round(prices[i].price))

\* An allocated asset has a price in another currency and none in the base
\* currency, while another asset has one in the base currency.
C12_Witness ==
    /\ Suggested
    /\ Seen.price_map # EmptyDict
    /\ \E aid \in DOMAIN out.result.target_weights :
          /\ RowsOf(prices, BaseCurrency, aid) = {}
          /\ \E i \in DOMAIN prices : prices[i].asset_id = aid
          /\ aid \notin DOMAIN Seen.price_map

(***************************************************************************)
(* C13.                                                                    *)
(***************************************************************************)
\* The allocated assets of the answer held, in the order of the rows.
AllocatedAssets == Keys(AllocationRows(allocations, out.portfolio_id))

\* quantity x price of a priced asset, exactly.
ExactValue(aid) == DictGet(Seen.quantities, aid, 0) * Seen.price_map[aid][1]

\* The priced ones among a list of assets.
PricedOf(asset_ids) == SelectSeq(asset_ids, LAMBDA aid : aid \in DOMAIN Seen.price_map)

\* The floating-point running total of the values of a list of assets.
RECURSIVE ValueTotal(_, _)
ValueTotal(asset_ids, acc) ==
    IF asset_ids = <<>> THEN acc
    ELSE ValueTotal(Tail(asset_ids), FPlus(acc, Seen.values[Head(asset_ids)]))

\* No value and no partial sum of the values is rounded.
ExactValues ==
    /\ \A aid \in DOMAIN Seen.values : Abs(ExactValue(aid)) <= Pow2(MantBits)
    /\ Magnitude([i \in DOMAIN PricedOf(AllocatedAssets) |->
                     ExactValue(PricedOf(AllocatedAssets)[i])]) <= Pow2(MantBits)

\* C13: compute_values returns a value map whose keys are exactly the
\* requested assets that have a price, each with quantity x price (quantity
\* 0 for an asset not held), and a total that is the sum of the values of
\* the map (the floating-point running total in the order of the request,
\* the exact sum of the exact products when nothing is rounded); an asset
\* without a price is in neither.
C13_ValuesOfPricedAssets ==
    Suggested =>
        /\ DOMAIN Seen.values = DOMAIN out.result.target_weights \cap DOMAIN Seen.price_map
        /\ \A aid \in DOMAIN Seen.values :
              Seen.values[aid] = FRound(ExactValue(aid), 1)
        /\ Seen.total_value = ValueTotal(PricedOf(AllocatedAssets), Zero)
        /\ ExactValues =>
              Seen.total_value
                  = Whole(Sum([i \in DOMAIN PricedOf(AllocatedAssets) |->
                                  ExactValue(PricedOf(AllocatedAssets)[i])]))

\* Of three requested assets one is held and priced, one is priced and not
\* held (value 0), one has no price; nothing is rounded.
C13_Witness ==
    /\ Suggested
    /\ ExactValues
    /\ \E a, b, c \in DOMAIN out.result.target_weights :
          /\ a \in DOMAIN Seen.values /\ Seen.values[a] # Zero
          /\ b \in DOMAIN Seen.values /\ b \notin DOMAIN Seen.quantities
          /\ Seen.values[b] = Zero
          /\ c \notin DOMAIN Seen.price_map /\ c \notin DOMAIN Seen.values
    /\ Seen.total_value # Zero

(***************************************************************************)
(* C14.                                                                    *)
(***************************************************************************)
\* C14: for a portfolio without allocations suggest_rebalance returns
\* (0.0, {}, {}, []) whatever the holdings and the prices are, and raises
\* nothing.
C14_NoAllocationsNothingSuggested ==
    Holds("rebalance") /\ AllocationRows(allocations, out.portfolio_id) = <<>> =>
        /\ ~out.result.raised
        /\ out.result.total_value = Zero
        /\ out.result.current_weights = EmptyDict
        /\ out.result.target_weights = EmptyDict
        /\ out.result.legs = <<>>

\* The user holds assets, the base currency of the portfolio has prices,
\* another portfolio has allocations, this one has none.
C14_Witness ==
    /\ Holds("rebalance")
    /\ AllocationRows(allocations, out.portfolio_id) = <<>>
    /\ allocations # <<>>
    /\ compute_holdings(log, out.user_id) # EmptyDict
    /\ \E i \in DOMAIN prices : prices[i].base_currency = BaseCurrency

(***************************************************************************)
(* C15.                                                                    *)
(***************************************************************************)
\* The target weights as the allocations of the portfolio configure them.
ConfiguredWeights ==
    LET rows == AllocationRows(allocations, out.portfolio_id)
    IN  /\ DOMAIN out.result.target_weights = {rows[i].asset_id : i \in DOMAIN rows}
        /\ \A i \in DOMAIN rows :
              out.result.target_weights[rows[i].asset_id]
                  = FRound(rows[i].target_weight[1], rows[i].target_weight[2])

\* C15: whenever the total value of the priced, allocated holdings is zero
\* or negative, suggest_rebalance returns a total_value of 0, no current
\* weights, the target weights as configured and no legs.
C15_NothingToValue ==
    Suggested /\ LessEq(Seen.total_value, Zero) =>
        /\ ~out.result.raised
        /\ out.result.total_value = Zero
        /\ out.result.current_weights = EmptyDict
        /\ ConfiguredWeights
        /\ out.result.legs = <<>>

\* The allocated holdings are worth less than nothing: a negative quantity
\* at a positive price, or a positive quantity at a negative price.
C15_Witness ==
    /\ Suggested
    /\ Less(Seen.total_value, Zero)
    /\ \E aid \in DOMAIN Seen.values : Less(Seen.values[aid], Zero)
    /\ Cardinality(DOMAIN out.result.target_weights) > 1

(***************************************************************************)
(* C16.                                                                    *)
(***************************************************************************)
\* The exact sum of a sequence of fractions.
RECURSIVE ExactSum(_)
ExactSum(s) ==
    IF s = <<>> THEN Zero
    ELSE LET rest == ExactSum(Tail(s))
         IN  <<Head(s)[1] * rest[2] + rest[1] * Head(s)[2], Head(s)[2] * rest[2]>>

\* The values the legs moved, in pairing order.
MoveValues == [i \in DOMAIN Seen.steps |-> Seen.steps[i].move_value]

\* |delta_value| of every allocated asset whose delta_value is below -1e-6.
SourceExcess ==
    LET ids == SelectSeq(AllocatedAssets, LAMBDA aid : Less(Seen.deltas[aid], Whole(-Eps)))
    IN  [i \in DOMAIN ids |-> FNeg(Seen.deltas[ids[i]])]

\* The value left to the source of a step, before and (exactly) after it.
SourceBefore(step) == step.sources[step.s_idx][2]
SourceAfter(step) ==
    Reduce(SourceBefore(step)[1] * step.move_value[2]
               - step.move_value[1] * SourceBefore(step)[2],
           SourceBefore(step)[2] * step.move_value[2])

\* No subtraction of a moved value from what its source has left is rounded.
ExactPairing ==
    \A i \in DOMAIN Seen.steps :
        FMinus(SourceBefore(Seen.steps[i]), Seen.steps[i].move_value)
            = SourceAfter(Seen.steps[i])

\* C16 as stated: the move values of the legs add up to no more than the
\* |delta_value| of the sources add up to.
C16_MovesWithinSources ==
    Planned => LessEq(ExactSum(MoveValues), ExactSum(SourceExcess))

\* C16 amended: every leg moves no more than its source has left, and the
\* move values add up to no more than the |delta_value| of the sources
\* provided no subtraction of a moved value from what a source has left is
\* rounded.
C16_MovesWithinSourcesWhenExact ==
    Planned =>
        /\ \A i \in DOMAIN Seen.steps :
              LessEq(Seen.steps[i].move_value, SourceBefore(Seen.steps[i]))
        /\ ExactPairing => LessEq(ExactSum(MoveValues), ExactSum(SourceExcess))

\* One source paired with two destinations in two legs, nothing rounded, and
\* value left on the source.
C16_Witness ==
    /\ Planned
    /\ ExactPairing
    /\ Len(Seen.steps) >= 2
    /\ Len(SourceExcess) = 1
    /\ Less(ExactSum(MoveValues), ExactSum(SourceExcess))

(***************************************************************************)
(* C17.                                                                    *)
(***************************************************************************)
\* The allocated assets to shed value (delta_value < -1e-6) and to gain
\* value (delta_value > 1e-6), in the order of the allocations.
SourceAssets == SelectSeq(AllocatedAssets, LAMBDA aid : Less(Seen.deltas[aid], Whole(-Eps)))
DestAssets == SelectSeq(AllocatedAssets, LAMBDA aid : Less(Whole(Eps), Seen.deltas[aid]))

\* min(|delta_source|, delta_dest) / price_source, as a float.
OneLegQuantity(source, dest) ==
    LET move == IF LessEq(FNeg(Seen.deltas[source]), Seen.deltas[dest])
                THEN FNeg(Seen.deltas[source]) ELSE Seen.deltas[dest]
    IN  FRound(move[1] * Seen.price_map[source][2], move[2] * Seen.price_map[source][1])

\* C17: when the allocated assets yield exactly one source and one
\* destination and the source has a usable price, suggest_rebalance returns
\* exactly one leg (source, destination, quantity_from) with quantity_from =
\* min(|delta_source|, delta_dest) / price_source.
C17_OneSourceOneDestOneLeg ==
    (/\ Planned
     /\ Len(SourceAssets) = 1
     /\ Len(DestAssets) = 1
     /\ SourceAssets[1] \in DOMAIN Seen.price_map
     /\ Seen.price_map[SourceAssets[1]][1] > 0)
    => out.result.legs
           = << <<SourceAssets[1], DestAssets[1], OneLegQuantity(SourceAssets[1], DestAssets[1])>> >>

\* Targets of one half each for an asset that holds all the value and an
\* asset that holds none: one leg from the first to the second, of half the
\* value at the price of the first, which is not 1.
C17_Witness ==
    /\ Planned
    /\ Len(SourceAssets) = 1
    /\ Len(DestAssets) = 1
    /\ Cardinality(DOMAIN out.result.target_weights) = 2
    /\ Len(out.result.legs) = 1
    /\ Seen.price_map[SourceAssets[1]][1] > 1
    /\ out.result.legs[1][3][1] * Seen.price_map[SourceAssets[1]][1] * 2
           = Seen.total_value[1] * out.result.legs[1][3][2]

(***************************************************************************)
(* C18.                                                                    *)
(***************************************************************************)
\* C18 as stated: when suggest_rebalance returns with total_value > 0, an
\* allocated asset without a price in the base currency has no entry in
\* current_weights.
C18_UnpricedHasNoWeight ==
    Planned =>
        \A aid \in DOMAIN out.result.target_weights :
            aid \notin DOMAIN Seen.price_map => aid \notin DOMAIN out.result.current_weights

\* C18 amended: when suggest_rebalance returns with total_value > 0,
\* current_weights has an entry for every allocated asset; an allocated
\* asset without a price in the base currency is absent from the value map
\* and is recorded in current_weights with weight 0.
C18_UnpricedHasWeightZero ==
    Planned =>
        /\ DOMAIN out.result.current_weights = DOMAIN out.result.target_weights
        /\ \A aid \in DOMAIN out.result.target_weights :
              aid \notin DOMAIN Seen.price_map =>
                  /\ aid \notin DOMAIN Seen.values
                  /\ out.result.current_weights[aid] = Zero

\* The planner ran for a portfolio with an allocated asset that has no price
\* in the base currency.
C18_Witness ==
    /\ Planned
    /\ Less(Zero, out.result.total_value)
    /\ \E aid \in DOMAIN out.result.target_weights :
          /\ aid \notin DOMAIN Seen.price_map
          /\ out.result.current_weights[aid] = Zero

(***************************************************************************)
(* C19.                                                                    *)
(***************************************************************************)
\* A dict without the keys outside a set.
Restrict(d, keys) == [k \in DOMAIN d \cap keys |-> d[k]]

\* What suggest_rebalance returns: total_value, current_weights,
\* target_weights, legs.
Tuple(result) ==
    <<result.total_value, result.current_weights, result.target_weights, result.legs>>

\* C19: suggest_rebalance values only the assets of the portfolio's
\* allocations: with the holdings and the prices of every other asset taken
\* away it returns the same total_value, current_weights, target_weights and
\* legs, and no leg names an asset that is not allocated.
C19_OnlyAllocatedAssetsCount ==
    Suggested =>
        LET allocated == DOMAIN out.result.target_weights
        IN  /\ Tuple(out.result)
                  = Tuple(suggest_rebalance(AllocationRows(allocations, out.portfolio_id),
                                            Restrict(Seen.price_map, allocated),
                                            Restrict(Seen.quantities, allocated)))
            /\ \A i \in DOMAIN out.result.legs :
                  /\ out.result.legs[i][1] \in allocated
                  /\ out.result.legs[i][2] \in allocated

\* The user holds an asset that has a price and is not allocated, and the
\* planner emits a leg between the allocated ones.
C19_Witness ==
    /\ Planned
    /\ out.result.legs # <<>>
    /\ \E aid \in DOMAIN Seen.quantities \cap DOMAIN Seen.price_map :
          /\ aid \notin DOMAIN out.result.target_weights
          /\ Seen.price_map[aid] # Zero

(***************************************************************************)
(* C20.                                                                    *)
(***************************************************************************)
\* The asset whose price the quantity of a step's leg is divided by.
SourceOf(step) == step.sources[step.s_idx][1]

\* C20: whatever the transaction, price and allocation stores hold,
\* suggest_rebalance returns its tuple and divides by no zero: weights are
\* divided by total_value only when total_value > 0, and a leg's quantity by
\* the price of its source only when that price is there and > 0.
C20_NoDivisionByZero ==
    Holds("rebalance") =>
        /\ ~out.result.raised
        /\ out.result.current_weights # EmptyDict =>
              /\ Less(Zero, Seen.total_value)
              /\ \A aid \in DOMAIN out.result.current_weights :
                    out.result.current_weights[aid] # ZeroDivisionError
        /\ \A i \in DOMAIN Seen.steps :
              /\ SourceOf(Seen.steps[i]) \in DOMAIN Seen.price_map
              /\ Less(Zero, Seen.price_map[SourceOf(Seen.steps[i])])
              /\ out.result.legs[i][3] # ZeroDivisionError

\* Allocated assets are priced and add up to a total of exactly zero.
C20_Witness ==
    /\ Suggested
    /\ ~out.result.raised
    /\ Seen.values # EmptyDict
    /\ Seen.total_value = Zero

(***************************************************************************)
(* C21.                                                                    *)
(***************************************************************************)
\* An amount that is absent or a magnitude.
AbsentOrMagnitude(amount) == amount = NoAmount \/ amount[1] >= 0

\* C21: after any sequence of quick_add_expense, create_trade and
\* create_income calls every stored transaction has a from_amount and a
\* to_amount that are absent or non-negative.
C21_AmountsAreMagnitudes ==
    \A i \in DOMAIN log :
        /\ AbsentOrMagnitude(log[i].from_amount)
        /\ AbsentOrMagnitude(log[i].to_amount)

(***************************************************************************)
(* C22.                                                                    *)
(***************************************************************************)
\* The entries of a list from an index on whose value exceeds the
\* threshold: the sources or destinations not yet exhausted.
Open(list, idx) == {i \in idx..Len(list) : Less(Whole(Eps), list[i][2])}

\* The entry at the index has the largest remaining value of the open ones.
LargestRemaining(list, idx) ==
    \A i \in Open(list, idx) : LessEq(list[i][2], list[idx][2])

\* C22: at every iteration of the pairing loop the source paired has the
\* largest remaining value of the sources not yet exhausted, and the
\* destination paired the largest remaining value of the destinations not
\* yet exhausted.
C22_LargestRemainingPaired ==
    Planned =>
        \A i \in DOMAIN Seen.steps :
            /\ LargestRemaining(Seen.steps[i].sources, Seen.steps[i].s_idx)
            /\ LargestRemaining(Seen.steps[i].dests, Seen.steps[i].d_idx)

\* The sorted lists the loop starts from.
SortedSources == IF Seen.steps = <<>> THEN <<>> ELSE Seen.steps[1].sources
SortedDests == IF Seen.steps = <<>> THEN <<>> ELSE Seen.steps[1].dests

\* The entry at the index is the first, in the order the loop started from,
\* that is not finished: the entries before it are exhausted, it is not, and
\* of the entries from it on it started with the largest value.
FirstUnfinished(list, idx, sorted) ==
    /\ \A i \in 1..(idx - 1) : LessEq(list[i][2], Whole(Eps))
    /\ Less(Whole(Eps), list[idx][2])
    /\ \A i \in idx..Len(list) : LessEq(sorted[i][2], sorted[idx][2])
    /\ \A i \in (idx + 1)..Len(list) : list[i] = sorted[i]

\* C22 as amended: the source paired is the first unfinished one in
\* descending order of the initial values, and so is the destination; what
\* is left of it can be less than a later entry has.
C22_LargestInitialPaired ==
    Planned =>
        \A i \in DOMAIN Seen.steps :
            /\ FirstUnfinished(Seen.steps[i].sources, Seen.steps[i].s_idx, SortedSources)
            /\ FirstUnfinished(Seen.steps[i].dests, Seen.steps[i].d_idx, SortedDests)

\* A source is paired again when what is left of it is less than the next
\* source has.
C22_Witness ==
    /\ Planned
    /\ \E i \in DOMAIN Seen.steps :
          LET step == Seen.steps[i]
          IN  /\ step.s_idx < Len(step.sources)
              /\ Less(step.sources[step.s_idx][2], step.sources[step.s_idx + 1][2])

(***************************************************************************)
(* C23.                                                                    *)
(***************************************************************************)
\* Entry i of a list comes before entry j in the order of the pairing:
\* it has the larger value, or the same value and the earlier place.
Precedes(list, i, j) ==
    \/ Less(list[j][2], list[i][2])
    \/ list[i][2] = list[j][2] /\ i < j

\* The places in the unsorted list of sources of the sources that have no
\* price to divide by: none, zero or negative.
Unpriced ==
    {u \in DOMAIN Seen.sources :
        \/ Seen.sources[u][1] \notin DOMAIN Seen.price_map
        \/ LessEq(Seen.price_map[Seen.sources[u][1]], Zero)}

\* The places in the unsorted lists of an asset.
SourcePlace(aid) == CHOOSE i \in DOMAIN Seen.sources : Seen.sources[i][1] = aid
DestPlace(aid) == CHOOSE i \in DOMAIN Seen.dests : Seen.dests[i][1] = aid

\* The loop ended with a source and a destination still to pair.
Stopped ==
    /\ Seen.left.s_idx <= Len(Seen.left.sources)
    /\ Seen.left.d_idx <= Len(Seen.left.dests)

\* C23: once the source at the head of the pairing loop has no usable price
\* no further leg is emitted: every leg comes from a source that precedes
\* every source without a usable price, the legs emitted up to there are
\* what is returned, and the sources after the head are left as they were.
C23_NoLegPastUnpricedSource ==
    Planned =>
        /\ \A i \in DOMAIN out.result.legs :
              /\ \E p \in DOMAIN Seen.sources : Seen.sources[p][1] = out.result.legs[i][1]
              /\ \A u \in Unpriced : Precedes(Seen.sources, SourcePlace(out.result.legs[i][1]), u)
        /\ Len(out.result.legs) = Len(Seen.steps)
        /\ Stopped =>
              /\ \E u \in Unpriced :
                    Seen.sources[u][1] = Seen.left.sources[Seen.left.s_idx][1]
              /\ \A j \in Seen.left.s_idx..Len(Seen.left.sources) :
                    /\ Seen.left.sources[j][2] = Seen.sources[SourcePlace(Seen.left.sources[j][1])][2]
                    /\ \A i \in DOMAIN out.result.legs :
                          out.result.legs[i][1] # Seen.left.sources[j][1]

\* A leg was emitted, then the head had no usable price, and a source after
\* it has one.
C23_Witness ==
    /\ Planned
    /\ Stopped
    /\ out.result.legs # <<>>
    /\ \E j \in (Seen.left.s_idx + 1)..Len(Seen.left.sources) :
          /\ Seen.left.sources[j][1] \in DOMAIN Seen.price_map
          /\ Less(Zero, Seen.price_map[Seen.left.sources[j][1]])

(***************************************************************************)
(* C24.                                                                    *)
(***************************************************************************)
\* The assets a leg takes from or gives to.
LegAssets == {out.result.legs[i][1] : i \in DOMAIN out.result.legs}
                 \cup {out.result.legs[i][2] : i \in DOMAIN out.result.legs}

\* An allocated asset whose delta_value is within the threshold of zero.
Balanced(aid) ==
    /\ LessEq(Whole(-Eps), Seen.deltas[aid])
    /\ LessEq(Seen.deltas[aid], Whole(Eps))

\* C24: every leg takes from an allocated asset with delta_value < -1e-6
\* and gives to an allocated asset with delta_value > 1e-6; an asset with
\* |delta_value| <= 1e-6 is in no leg, and no leg takes from the asset it
\* gives to.
C24_LegsFromSourcesToDests ==
    Planned =>
        /\ \A i \in DOMAIN out.result.legs :
              LET from_asset == out.result.legs[i][1]
                  to_asset == out.result.legs[i][2]
              IN  /\ from_asset \in DOMAIN out.result.target_weights
                  /\ to_asset \in DOMAIN out.result.target_weights
                  /\ Less(Seen.deltas[from_asset], Whole(-Eps))
                  /\ Less(Whole(Eps), Seen.deltas[to_asset])
                  /\ from_asset # to_asset
        /\ \A aid \in DOMAIN out.result.target_weights :
              Balanced(aid) => aid \notin LegAssets

\* Legs are suggested while an allocated asset is off its target by less
\* than the threshold.
C24_Witness ==
    /\ Planned
    /\ out.result.legs # <<>>
    /\ \E aid \in DOMAIN out.result.target_weights :
          Balanced(aid) /\ Seen.deltas[aid] # Zero

(***************************************************************************)
(* C25.                                                                    *)
(***************************************************************************)
\* C25: in the returned legs the source assets come in non-increasing order
\* of their initial |delta_value| and the destination assets in
\* non-increasing order of their initial delta_value, assets of the same
\* value in the order the allocations are iterated: the legs are in pairing
\* order, not in the order of the asset ids.
C25_LegsInPairingOrder ==
    Planned =>
        \A i, j \in DOMAIN out.result.legs :
            i < j =>
                /\ \/ out.result.legs[i][1] = out.result.legs[j][1]
                   \/ Precedes(Seen.sources, SourcePlace(out.result.legs[i][1]),
                                             SourcePlace(out.result.legs[j][1]))
                /\ \/ out.result.legs[i][2] = out.result.legs[j][2]
                   \/ Precedes(Seen.dests, DestPlace(out.result.legs[i][2]),
                                           DestPlace(out.result.legs[j][2]))

\* Two legs give to destinations of the same initial value, and two legs
\* are not in the order of the asset ids.
C25_Witness ==
    /\ Planned
    /\ \E i, j \in DOMAIN out.result.legs :
          /\ i < j
          /\ out.result.legs[i][2] # out.result.legs[j][2]
          /\ Seen.deltas[out.result.legs[i][2]] = Seen.deltas[out.result.legs[j][2]]
    /\ \E i, j \in DOMAIN out.result.legs :
          /\ i < j
          /\ \/ out.result.legs[i][1] > out.result.legs[j][1]
             \/ out.result.legs[i][2] > out.result.legs[j][2]

(***************************************************************************)
(* C26.                                                                    *)
(***************************************************************************)
\* The indexes after step i: those the next step starts from, or those the
\* loop ends with.
IndexesAfter(i) ==
    IF i < Len(Seen.steps)
    THEN <<Seen.steps[i + 1].s_idx, Seen.steps[i + 1].d_idx>>
    ELSE <<Seen.left.s_idx, Seen.left.d_idx>>

\* Every iteration that emits a leg moves the source index, the destination
\* index or both forward, and neither back.
EveryLegAdvances ==
    \A i \in DOMAIN Seen.steps :
        /\ IndexesAfter(i)[1] >= Seen.steps[i].s_idx
        /\ IndexesAfter(i)[2] >= Seen.steps[i].d_idx
        /\ IndexesAfter(i)[1] + IndexesAfter(i)[2] > Seen.steps[i].s_idx + Seen.steps[i].d_idx

\* C26: the pairing loop ends: every iteration that emits a leg advances
\* the source index, the destination index or both, so there are at most
\* |sources| + |destinations| - 1 legs.
C26_AtMostSourcesPlusDestsLessOne ==
    Planned =>
        /\ EveryLegAdvances
        /\ Len(out.result.legs) <= Len(Seen.sources) + Len(Seen.dests) - 1

\* C26 as amended: with neither a source nor a destination there is no leg
\* (and the bound would be -1); otherwise the bound holds.
C26_AtMostSourcesPlusDestsLessOneOrNone ==
    Planned =>
        /\ EveryLegAdvances
        /\ Len(out.result.legs) = Len(Seen.steps)
        /\ IF Seen.sources = <<>> /\ Seen.dests = <<>>
           THEN out.result.legs = <<>>
           ELSE Len(out.result.legs) <= Len(Seen.sources) + Len(Seen.dests) - 1

\* As many legs as the bound allows, and more than two.
C26_Witness ==
    /\ Planned
    /\ Len(out.result.legs) > 2
    /\ Len(out.result.legs) = Len(Seen.sources) + Len(Seen.dests) - 1

(***************************************************************************)
(* C27.                                                                    *)
(***************************************************************************)
\* Every entry of a list has no more than the threshold left.
Resolved(list) == \A i \in DOMAIN list : LessEq(list[i][2], Whole(Eps))

\* C27: when the pairing loop ends without the abort for a missing price,
\* one side is fully resolved: every source has at most 1e-6 left, or every
\* destination has.
C27_OneSideResolved ==
    Planned /\ ~Seen.broke =>
        Resolved(Seen.left.sources) \/ Resolved(Seen.left.dests)

\* The loop paired, was not aborted, and left one side unresolved.
C27_Witness ==
    /\ Planned
    /\ ~Seen.broke
    /\ Len(out.result.legs) > 1
    /\ ~(Resolved(Seen.left.sources) /\ Resolved(Seen.left.dests))

(***************************************************************************)
(* C28.                                                                    *)
(***************************************************************************)
\* The steps whose leg leaves the asset, and those whose leg enters it.
StepsFrom(aid) == SelectSeq(Seen.steps, LAMBDA step : step.sources[step.s_idx][1] = aid)
StepsTo(aid) == SelectSeq(Seen.steps, LAMBDA step : step.dests[step.d_idx][1] = aid)

\* The values moved by a sequence of steps.
Moved(steps) == [i \in DOMAIN steps |-> steps[i].move_value]

\* The value left to the destination of a step, before and (exactly) after.
DestBefore(step) == step.dests[step.d_idx][2]
DestAfter(step) ==
    Reduce(DestBefore(step)[1] * step.move_value[2]
               - step.move_value[1] * DestBefore(step)[2],
           DestBefore(step)[2] * step.move_value[2])

\* No subtraction on what the asset has left, as a source or as a
\* destination, is rounded.
ExactFor(aid) ==
    /\ \A i \in DOMAIN StepsFrom(aid) :
          FMinus(SourceBefore(StepsFrom(aid)[i]), StepsFrom(aid)[i].move_value)
              = SourceAfter(StepsFrom(aid)[i])
    /\ \A i \in DOMAIN StepsTo(aid) :
          FMinus(DestBefore(StepsTo(aid)[i]), StepsTo(aid)[i].move_value)
              = DestAfter(StepsTo(aid)[i])

\* The legs that leave an asset move no more than its |delta_value|, and
\* the legs that enter it no more than its delta_value.
WithinDelta(aid) ==
    /\ StepsFrom(aid) # <<>> =>
          LessEq(ExactSum(Moved(StepsFrom(aid))), FNeg(Seen.deltas[aid]))
    /\ StepsTo(aid) # <<>> =>
          LessEq(ExactSum(Moved(StepsTo(aid))), Seen.deltas[aid])

\* C28: per asset the target is never overshot: the legs that leave a
\* source asset move no more than its |delta_value| in total, and the legs
\* that enter a destination asset no more than its delta_value.
C28_NoOvershoot ==
    Planned => \A aid \in DOMAIN out.result.target_weights : WithinDelta(aid)

\* C28 as amended: the same for every asset whose remaining value is
\* updated without rounding.
C28_NoOvershootWhenExact ==
    Planned =>
        \A aid \in DOMAIN out.result.target_weights :
            ExactFor(aid) => WithinDelta(aid)

\* Several legs leave one source, nothing is rounded, and they add up to
\* exactly its |delta_value|.
C28_Witness ==
    /\ Planned
    /\ \E aid \in DOMAIN out.result.target_weights :
          /\ Len(StepsFrom(aid)) > 1
          /\ ExactFor(aid)
          /\ ExactSum(Moved(StepsFrom(aid))) = FNeg(Seen.deltas[aid])
    /\ \A aid \in DOMAIN out.result.target_weights : ExactFor(aid)

(***************************************************************************)
(* C29.                                                                    *)
(***************************************************************************)
\* C29: every leg has a quantity_from above zero: when it is paired both
\* its source and its destination have more than 1e-6 left, so it moves
\* more than 1e-6, and the price of its source is above zero.
C29_PositiveQuantity ==
    Planned =>
        /\ Len(out.result.legs) = Len(Seen.steps)
        /\ \A i \in DOMAIN out.result.legs :
              /\ Less(Zero, out.result.legs[i][3])
              /\ Less(Whole(Eps), SourceBefore(Seen.steps[i]))
              /\ Less(Whole(Eps), DestBefore(Seen.steps[i]))
              /\ Less(Whole(Eps), Seen.steps[i].move_value)
              /\ SourceOf(Seen.steps[i]) \in DOMAIN Seen.price_map
              /\ Less(Zero, Seen.price_map[SourceOf(Seen.steps[i])])

\* A leg is paired with what earlier legs left of its source and of its
\* destination.
C29_Witness ==
    /\ Planned
    /\ \E i \in DOMAIN Seen.steps :
          /\ i > 1
          /\ Less(SourceBefore(Seen.steps[i]), FNeg(Seen.deltas[SourceOf(Seen.steps[i])]))
    /\ \E i \in DOMAIN Seen.steps :
          LET to == Seen.steps[i].dests[Seen.steps[i].d_idx]
          IN  Less(to[2], Seen.deltas[to[1]])

(***************************************************************************)
(* C30.                                                                    *)
(***************************************************************************)
\* Every stored price is above zero, every stored target weight at least
\* zero.
PositivePrices == \A i \in DOMAIN prices : prices[i].price > 0
WeightsFromZero == \A i \in DOMAIN allocations : allocations[i].target_weight[1] >= 0

\* C30: when every stored price is > 0 and every target weight >= 0, every
\* source has a value above zero and with it a usable price, so the
\* pairing loop is never aborted for a missing price.
C30_NoAbortWithPositivePrices ==
    Planned /\ PositivePrices /\ WeightsFromZero =>
        /\ \A i \in DOMAIN Seen.sources :
              LET aid == Seen.sources[i][1]
              IN  /\ aid \in DOMAIN Seen.values
                  /\ Less(Zero, Seen.values[aid])
                  /\ LessEq(Zero, FMul(out.result.target_weights[aid], Seen.total_value))
                  /\ aid \in DOMAIN Seen.price_map
                  /\ Less(Zero, Seen.price_map[aid])
        /\ ~Seen.broke
        /\ ~Stopped

\* Prices above zero are stored, an allocated asset has none, and legs are
\* suggested to it.
C30_Witness ==
    /\ Planned
    /\ PositivePrices
    /\ WeightsFromZero
    /\ prices # <<>>
    /\ \E i \in DOMAIN out.result.legs :
          out.result.legs[i][2] \notin DOMAIN Seen.price_map

====
